---- MODULE Spec2Model ----
(***************************************************************************)
(* State-machine model of the LinkedIn lead pipeline: the Slack message    *)
(* handler (services/slack.js), the controller runPipeline (index.js), the *)
(* Apify scraper (services/apify.js), the Apollo enrichment batcher        *)
(* (services/apollo.js) and the Smartlead delivery submitter               *)
(* (services/smartlead.js).                                                *)
(*                                                                         *)
(* Every `await` of a network call or of a timer is a program location     *)
(* (pc); the step taken when the awaited promise settles runs the code up  *)
(* to the next await, as the single-threaded event loop does.              *)
(***************************************************************************)
EXTENDS Integers, Sequences, FiniteSets, TLC

(* ------------------------------ bounds -------------------------------- *)

\* Most distinct profiles a scraped dataset refers to.
MaxEngagers == 6

\* Most post records in a scraped dataset.
MaxPosts == 2

\* Most profiles of a run whose person record may lack an email_status
\* (the profiles 1..MaxNoStatus).
MaxNoStatus == 1

\* Most '/' characters at the end of a URL's path.
MaxSlashes == 2

\* Where two runs interleave: most profiles either run scrapes, and most
\* polls of either actor run.
MaxInterleavedEngagers == 1

MaxInterleavedPolls == 1

(* ------------------------- program constants -------------------------- *)

\* enrichProfiles(linkedinUrls, concurrency = 5, delayMs = 1000)
concurrency == 5

\* waitForRun(runId, maxAttempts = 60, intervalMs = 10000)
maxAttempts == 60

(* ------------------------------ helpers ------------------------------- *)

\* A value that may be absent (null / undefined) is a sequence of length 0 or 1.
None == <<>>

Some(x) == <<x>>

\* Whether the token sequence part occurs contiguously in text.
Contains(text, part) ==
  \E i \in 1..(Len(text) - Len(part) + 1) : SubSeq(text, i, i + Len(part) - 1) = part

RECURSIVE Flatten(_)
\* Concatenation of a sequence of sequences.
Flatten(ss) == IF ss = <<>> THEN <<>> ELSE Head(ss) \o Flatten(Tail(ss))

\* The interval lo..hi as a sequence (empty when hi < lo).
Interval(lo, hi) == [i \in 1..(hi - lo + 1) |-> lo + i - 1]

(* --------------------- services/slack.js: notifier --------------------- *)

\* The channel the service is configured with (SLACK_CHANNEL_ID) and another one.
Channels == {"C_PIPELINE", "C_OTHER"}

channelId == "C_PIPELINE"

\* Message texts, by what the two regular expressions of parseMessage look at:
\* absent text, text without a URL, or text holding one URL with a host and a
\* first path segment, written bare or in Slack's <url|label> wrapping.
Texts ==
  {None, Some([url |-> None, wrapped |-> FALSE])}
    \cup {Some([url |-> Some([host |-> h, segment |-> g]), wrapped |-> w]) :
            h \in {"linkedin.com", "www.linkedin.com", "example.com"},
            g \in {"posts", "feed/update", "in"},
            w \in BOOLEAN}

\* Incoming message events.
Events ==
  [bot_id : BOOLEAN, subtype : BOOLEAN, channel : Channels, text : Texts]

\* parseMessage(text): the parsed trigger {postUrl}, or null.
parseMessage(text) ==
  IF text = None THEN None
  ELSE IF /\ text[1].url # None
          /\ text[1].url[1].host \in {"linkedin.com", "www.linkedin.com"}
          /\ text[1].url[1].segment \in {"posts", "feed/update"}
       THEN Some([postUrl |-> text[1].url[1]])
       ELSE None

\* Mutation: the filter does not look at bot_id.
IgnoredExceptBots(event) == event.subtype \/ event.channel # channelId

\* The event filter of the message handler: bot messages, message changes
\* and messages of other channels are ignored.
Ignored(event) ==
  event.bot_id \/ event.subtype \/ event.channel # channelId

\* The message handler up to its call of onMessage: the parsed trigger
\* runPipeline is called with, or nothing when the handler returns early.
Trigger(event) == IF Ignored(event) THEN None ELSE parseMessage(event.text)

\* RunStatistics as constructed at the top of runPipeline.
InitialStats == [engagers |-> 0, enriched |-> 0, pushed |-> 0, failed |-> 0]

\* Marks a notification that carries no statistics.
NoStats == [engagers |-> -1, enriched |-> -1, pushed |-> -1, failed |-> -1]

\* A posted message: the Slack method used, who called it (the pipeline run
\* or the message handler), the text as a sequence of tokens, and the stats
\* object handed to sendSummary.
Message(fn, by, text, st) == [fn |-> fn, by |-> by, text |-> text, stats |-> st]

\* sendStatus(status): sendMessage(`<hourglass> ${status}`)
StatusText(status) == <<"[wait] ">> \o status

\* sendError(error): sendMessage(`<cross> *Pipeline Error*\n${error}`)
ErrorText(error) == <<"[x] *Pipeline Error*\n">> \o error

\* sendSummary(stats): the lines of the summary; the failed line only when
\* stats.failed > 0 (filter(Boolean) drops the empty string).
SummaryText(st) ==
  <<"[ok] *Pipeline Complete*",
    "Found *", ToString(st.engagers), "* engagers",
    "-> *", ToString(st.enriched), "* emails from Apollo",
    "-> *", ToString(st.pushed), "* pushed to Smartlead">>
    \o (IF st.failed > 0
        THEN <<"[warn] ", ToString(st.failed), " failed to push">>
        ELSE <<>>)

\* The error raised when chat.postMessage fails (sendMessage re-throws it).
SlackError == <<"slack: chat.postMessage failed">>

(* ------------------- services/apify.js: the scraper -------------------- *)

\* Statuses an actor run is reported in.
RunStatuses == {"READY", "RUNNING", "SUCCEEDED", "FAILED", "ABORTED", "TIMED-OUT"}

\* The message of a failed HTTP request (error.message).
RequestFailed == <<"Request failed">>

\* runActor's catch: new Error(`Apify actor failed: ${errorMsg}`)
ActorFailed(errorMsg) == <<"Apify actor failed: ">> \o errorMsg

\* waitForRun: new Error(`Actor run ${status}`)
ActorRunEnded(status) == <<"Actor run ", status>>

\* waitForRun: new Error('Actor run timed out')
ActorRunTimedOut == <<"Actor run timed out">>

\* A post record, by the profile references its collections hold, in the
\* order the extractor visits them; a profile is named by a number.
Posts == {Interval(lo, hi) : lo \in 1..MaxEngagers, hi \in 0..MaxEngagers}

RECURSIVE AddAll(_, _)
\* Set.add of every element of refs, in order, to the insertion-ordered set.
AddAll(profileUrls, refs) ==
  IF refs = <<>> THEN profileUrls
  ELSE AddAll(IF \E i \in 1..Len(profileUrls) : profileUrls[i] = Head(refs)
              THEN profileUrls
              ELSE Append(profileUrls, Head(refs)),
              Tail(refs))

\* extractProfileUrls(postData): the distinct profiles, in first-seen order.
extractProfileUrls(postData) == AddAll(<<>>, Flatten(postData))

\* The datasets an actor run yields: up to MaxPosts posts; profiles are
\* numbered in the order of their first appearance.
Datasets ==
  {d \in UNION {[1..k -> Posts] : k \in 0..MaxPosts} :
     extractProfileUrls(d) = Interval(1, Len(extractProfileUrls(d)))}

\* getPostEngagers after runActor returned results.
EngagersOf(results) ==
  IF Len(results) = 0 THEN <<>> ELSE extractProfileUrls(results)

(* ------------- services/apify.js: records, strings, URLs --------------- *)

\* JavaScript values as parsed from the dataset's JSON, tagged by type.
\* A string is the sequence of its tokens; the tokens of a URL are chosen
\* so that '/', '?' and the scheme are tokens of their own.
Null == [t |-> "null"]

Undefined == [t |-> "undefined"]

Num(n) == [t |-> "number", n |-> n]

Str(s) == [t |-> "string", s |-> s]

Arr(items) == [t |-> "array", items |-> items]

Obj(f) == [t |-> "object", f |-> f]

\* null or undefined: reading a property of such a value throws a TypeError.
Nullish(v) == v.t \in {"null", "undefined"}

\* The value converts to true (if (v), !v, v && ..., v || ...).
Truthy(v) ==
  CASE v.t = "string" -> v.s # <<>>
    [] v.t = "number" -> v.n # 0
    [] OTHER -> ~Nullish(v)

\* v[name] of a value that is not null or undefined.
Get(v, name) ==
  IF v.t = "object" /\ name \in DOMAIN v.f THEN v.f[name] ELSE Undefined

\* a || b
JsOr(a, b) == IF Truthy(a) THEN a ELSE b

\* `${v}` inside a template literal.
Template(v) ==
  CASE v.t = "string" -> v.s
    [] v.t = "number" -> <<ToString(v.n)>>
    [] OTHER -> <<"[object Object]">>

\* s.startsWith(p)
StartsWith(s, p) == Len(s) >= Len(p) /\ SubSeq(s, 1, Len(p)) = p

\* url.split('?')[0]
BeforeQuery(s) ==
  LET marks == {i \in 1..Len(s) : s[i] = "?"}
  IN IF marks = {} THEN s
     ELSE SubSeq(s, 1, (CHOOSE i \in marks : \A j \in marks : i <= j) - 1)

\* Mutation: trailing slashes are kept.
KeepTrailingSlashes(s) == s

\* .replace(/\/+$/, '')
StripTrailingSlashes(s) ==
  LET kept == {i \in 1..Len(s) : s[i] # "/"}
  IN IF kept = {} THEN <<>>
     ELSE SubSeq(s, 1, CHOOSE i \in kept : \A j \in kept : j <= i)

\* if (normalized.startsWith('http://')) normalized.replace('http://', 'https://')
UpgradeScheme(s) ==
  IF StartsWith(s, <<"http:", "/", "/">>)
  THEN <<"https:", "/", "/">> \o SubSeq(s, 4, Len(s))
  ELSE s

\* normalizeLinkedInUrl(url): the normalized string, or null.
normalizeLinkedInUrl(url) ==
  IF ~Truthy(url) \/ url.t # "string" THEN None
  ELSE IF ~Contains(url.s, <<"linkedin.com">>) THEN None
  ELSE Some(UpgradeScheme(StripTrailingSlashes(BeforeQuery(url.s))))

\* const normalized = this.normalizeLinkedInUrl(v); if (normalized) add:
\* the URLs added to the set, none or one.
Normalized(v) ==
  LET normalized == normalizeLinkedInUrl(v)
  IN IF normalized # None /\ normalized[1] # <<>> THEN normalized ELSE <<>>

\* extractUrlFromItem: const urlFields
urlFields ==
  <<"profileUrl", "profile_url", "linkedinUrl", "linkedin_url", "url", "link",
    "actorUrl", "authorUrl", "memberUrl">>

\* extractUrlFromItem: const nestedObjects
nestedObjects ==
  <<"actor", "user", "profile", "reactor", "author", "member", "commenter">>

\* `https://www.linkedin.com/in/`
ProfilePrefix == <<"https:", "/", "/", "www.", "linkedin.com", "/", "in", "/">>

\* The loop over urlFields on the object o: the URLs added, in order.
UrlFieldRefs(o) ==
  Flatten([k \in 1..Len(urlFields) |->
             LET v == Get(o, urlFields[k])
             IN IF /\ Truthy(v)
                   /\ v.t = "string"
                   /\ Contains(v.s, <<"linkedin.com", "/", "in", "/">>)
                THEN Normalized(v)
                ELSE <<>>])

\* if (o.publicId) add(`https://www.linkedin.com/in/${o.publicId}`), and
\* the same for the other identifier fields in names.
IdRefs(o, names) ==
  Flatten([k \in 1..Len(names) |->
             LET v == Get(o, names[k])
             IN IF Truthy(v) THEN <<ProfilePrefix \o Template(v)>> ELSE <<>>])

\* The loop over nestedObjects on item: the URLs added, in order.
NestedRefs(item) ==
  Flatten([k \in 1..Len(nestedObjects) |->
             LET o == Get(item, nestedObjects[k])
             IN IF Truthy(o) /\ o.t \in {"object", "array"}
                THEN UrlFieldRefs(o)
                       \o IdRefs(o, <<"publicId", "publicIdentifier", "vanityName">>)
                ELSE <<>>])

\* extractUrlFromItem(item, profileUrls): the URLs added, in order.
extractUrlFromItem(item) ==
  IF ~Truthy(item) THEN <<>>
  ELSE UrlFieldRefs(item) \o NestedRefs(item)
         \o IdRefs(item, <<"publicId", "publicIdentifier">>)

\* A collection the loops iterate: its elements if Array.isArray.
ItemsOf(v) == IF v.t = "array" THEN v.items ELSE <<>>

\* post.comments || post.commenters || []
CommentsOf(post) ==
  JsOr(JsOr(Get(post, "comments"), Get(post, "commenters")), Arr(<<>>))

\* The body of extractProfileUrls' loop for one post that is not null:
\* the URLs added, in order, provided nothing throws.
PostRefs(post) ==
  LET author == Get(post, "authorProfileUrl")
      reactions == ItemsOf(JsOr(JsOr(JsOr(Get(post, "reactions"), Get(post, "likers")),
                                     Get(post, "likes")), Arr(<<>>)))
      comments == ItemsOf(CommentsOf(post))
      engagements == ItemsOf(JsOr(JsOr(Get(post, "engagements"),
                                       Get(post, "engagement")), Arr(<<>>)))
  IN (IF Truthy(author) THEN Normalized(author) ELSE <<>>)
       \o Flatten([k \in 1..Len(reactions) |-> extractUrlFromItem(reactions[k])])
       \o Flatten([k \in 1..Len(comments) |->
                     extractUrlFromItem(comments[k])
                       \o (IF Truthy(Get(comments[k], "author"))
                           THEN extractUrlFromItem(Get(comments[k], "author"))
                           ELSE <<>>)])
       \o Flatten([k \in 1..Len(engagements) |-> extractUrlFromItem(engagements[k])])

\* Whether the loop body throws a TypeError for post: post.authorProfileUrl
\* of a null post, or comment.author of a null comment.
PostRaises(post) ==
  \/ Nullish(post)
  \/ \E k \in 1..Len(ItemsOf(CommentsOf(post))) : Nullish(ItemsOf(CommentsOf(post))[k])

\* The message of the TypeError thrown on reading a property of null.
CannotReadNull == <<"Cannot read properties of null">>

\* A call that returned value.
Returned(value) == [threw |-> FALSE, value |-> value]

\* A call that threw error.
Threw(error) == [threw |-> TRUE, value |-> error]

\* extractProfileUrls applied to the records of a dataset: the array it
\* returns, or the TypeError it throws.
ExtractOutcome(postData) ==
  IF \E i \in 1..Len(postData) : PostRaises(postData[i])
  THEN Threw(CannotReadNull)
  ELSE Returned(extractProfileUrls([i \in 1..Len(postData) |-> PostRefs(postData[i])]))

(* ----------------- services/apollo.js: the enricher -------------------- *)

\* The values of person.email_status: one of three strings, or absent.
EmailStatuses == {Some("verified"), Some("guessed"), Some("unavailable"), None}

\* The email_status values the backend may report for a profile.
EmailStatusesOf(url) ==
  IF url <= MaxNoStatus THEN EmailStatuses ELSE EmailStatuses \ {None}

\* People-match answers: HTTP 429, another failure, or 200 with a body whose
\* person is absent or has an email (0 stands for an empty or absent one,
\* the profile's number for its address) and one of statuses as email_status.
Answers(url, statuses) ==
  {[code |-> 429, person |-> None], [code |-> 500, person |-> None],
   [code |-> 200, person |-> None]}
    \cup {[code |-> 200, person |-> Some([email |-> e, email_status |-> s])] :
            e \in {0, url}, s \in statuses}

\* The answers a people-match request for url can get during a run.
MatchResponses(url) == Answers(url, EmailStatusesOf(url))

\* enrichProfile, lines 53-82 and 91-95: the value the call resolves to for
\* an answer other than 429.
EnrichedContact(linkedinUrl, response) ==
  IF response.code # 200 THEN None
  ELSE IF response.person = None THEN None
  ELSE LET person == response.person[1] IN
       IF \/ person.email = 0
          \/ person.email_status = Some("guessed")
          \/ person.email_status = Some("unavailable")
       THEN None
       ELSE Some([email |-> person.email,
                  linkedinUrl |-> linkedinUrl,
                  emailStatus |-> person.email_status])

\* enrichProfile's catch: error.response?.status === 429
IsRateLimited(response) == response.code = 429

\* chunkArray(array, size): the number of chunks.
NumChunks(n, size) == (n + size - 1) \div size

\* chunkArray(array, size)[k]: the positions of the k-th chunk.
ChunkRange(n, size, k) ==
  {i \in 1..n : (k - 1) * size < i /\ i <= k * size}

(* --------------- services/smartlead.js: the submitter ------------------ *)

\* formatLead(contact)
formatLead(contact) ==
  [email |-> contact.email,
   custom_fields |-> [linkedin_url |-> contact.linkedinUrl]]

\* JavaScript's a || b on numbers that may be absent: a unless it is absent or 0.
OrElse(a, b) == IF a # None /\ a[1] # 0 THEN a ELSE b

\* Bodies of a successful bulk upload of n leads: null, or an object whose
\* counts may be absent, zero, one or n.
BulkBodies(n) ==
  LET Count == {None} \cup {Some(c) : c \in {0, 1, n}} IN
  {None} \cup {Some(b) : b \in [upload_count : Count, total_leads : Count,
                                 failed_count : Count]}

\* addLeads, lines 93-102: the result of a bulk upload answered with result.
BulkResult(result, formattedLeads) ==
  [added |-> OrElse(result.upload_count,
                    OrElse(result.total_leads, Some(Len(formattedLeads))))[1],
   failed |-> OrElse(result.failed_count, Some(0))[1]]

(* ------------------------------- state -------------------------------- *)

VARIABLES
  pc,               \* the await the run (or the handler) is suspended at
  handled,          \* what the message handler did with the last trigger
  outcome,          \* of runPipeline: "none", "running", "returned", "threw"
  failedAt,         \* the await whose rejection entered runPipeline's catch
  err,              \* the error caught by runPipeline's catch, if any
  thrown,           \* the error runPipeline rejected with, if any
  stats,            \* runPipeline's stats object
  calls,            \* the stage methods runPipeline has invoked, in order
  notifs,           \* the messages posted to the run's thread, in order
  ret,              \* history: the sizes and counts the stages returned,
                    \* the batches dispatched, the inter-batch delays begun,
                    \* the last status the actor run was reported in,
                    \* whether a people-match request was answered 429 and
                    \* how the bulk POST ended ("none", "rejected", "answered")
  attempt,          \* waitForRun's loop counter
  profileUrls,      \* the value getPostEngagers resolved to
  batch,            \* the index of the batch enrichProfiles is processing
  slot,             \* per profile: the state of its enrichProfile call
                    \* ("idle", "pending", "sleeping", "settled")
  results,          \* per profile: the value its enrichProfile call resolved to
  enrichedContacts, \* enrichProfiles' accumulator, then its return value
  leadIdx,          \* addLeadsIndividually's position in leads
  addedCount,       \* addLeadsIndividually's counters
  failedCount,
  leads,            \* addLeadsIndividually's per-contact results
  smartleadResult,  \* the value addLeads resolved to, if any
  call,             \* the function applied on its own, outside a run
  arg,              \* the argument it is applied to
  val,              \* what the application produced, once it has
  peer              \* the other invocation of the message handler and its
                    \* run: the values of all of the above that are its own

control == <<pc, handled, outcome, failedAt, err, thrown>>

scrape == <<attempt, profileUrls>>

enrich == <<batch, slot, results, enrichedContacts>>

deliver == <<leadIdx, addedCount, failedCount, leads, smartleadResult>>

locals == <<scrape, enrich, deliver>>

applied == <<call, arg, val>>

\* What lies outside the run the model follows.
aside == <<applied, peer>>

vars == <<control, stats, calls, notifs, ret, locals, aside>>

\* The handler invocation and run the model follows, as one value.
Run ==
  [pc |-> pc, handled |-> handled, outcome |-> outcome, failedAt |-> failedAt,
   err |-> err, thrown |-> thrown, stats |-> stats, calls |-> calls,
   notifs |-> notifs, ret |-> ret, attempt |-> attempt,
   profileUrls |-> profileUrls, batch |-> batch, slot |-> slot,
   results |-> results, enrichedContacts |-> enrichedContacts,
   leadIdx |-> leadIdx, addedCount |-> addedCount, failedCount |-> failedCount,
   leads |-> leads, smartleadResult |-> smartleadResult]

\* Nothing returned yet by any stage.
NothingReturned ==
  [urls |-> -1, contacts |-> -1, added |-> -1, failed |-> -1,
   waves |-> <<>>, delays |-> 0, status |-> None, retried |-> FALSE,
   bulk |-> "none"]

\* The block-scoped locals of runPipeline's try and of the services' methods,
\* before they are assigned and after they have gone out of scope.
NoLocals ==
  /\ attempt' = 0
  /\ profileUrls' = <<>>
  /\ batch' = 0
  /\ slot' = <<>>
  /\ results' = <<>>
  /\ enrichedContacts' = <<>>
  /\ leadIdx' = 0
  /\ addedCount' = 0
  /\ failedCount' = 0
  /\ leads' = <<>>
  /\ smartleadResult' = None

\* A handler invocation that has not received its event yet.
NoRunYet ==
  [pc |-> "idle", handled |-> "none", outcome |-> "none", failedAt |-> "none",
   err |-> None, thrown |-> None, stats |-> InitialStats, calls |-> <<>>,
   notifs |-> <<>>, ret |-> NothingReturned, attempt |-> 0,
   profileUrls |-> <<>>, batch |-> 0, slot |-> <<>>, results |-> <<>>,
   enrichedContacts |-> <<>>, leadIdx |-> 0, addedCount |-> 0, failedCount |-> 0,
   leads |-> <<>>, smartleadResult |-> None]

\* The service has started and no message has been handled yet.
Started ==
  /\ peer = NoRunYet
  /\ pc = "idle"
  /\ handled = "none"
  /\ outcome = "none"
  /\ failedAt = "none"
  /\ err = None
  /\ thrown = None
  /\ stats = InitialStats
  /\ calls = <<>>
  /\ notifs = <<>>
  /\ ret = NothingReturned
  /\ attempt = 0
  /\ profileUrls = <<>>
  /\ batch = 0
  /\ slot = <<>>
  /\ results = <<>>
  /\ enrichedContacts = <<>>
  /\ leadIdx = 0
  /\ addedCount = 0
  /\ failedCount = 0
  /\ leads = <<>>
  /\ smartleadResult = None

Init ==
  /\ Started
  /\ call = "none"
  /\ arg = None
  /\ val = None

(* ----------------------- control-flow fragments ----------------------- *)

\* Continue at the await named l.
Goto(l) ==
  /\ pc' = l
  /\ UNCHANGED <<handled, outcome, failedAt, err, thrown>>

\* runPipeline's catch (index.js 99-101): the error is logged and
\* slack.sendError is awaited; the locals of the try block are out of scope.
Catch(error) ==
  /\ pc' = "sendError"
  /\ failedAt' = pc
  /\ err' = Some(error)
  /\ UNCHANGED <<handled, outcome, thrown>>
  /\ NoLocals

\* runPipeline returns; the handler's await of onMessage completes.
Return ==
  /\ pc' = "idle"
  /\ outcome' = "returned"
  /\ handled' = "done"
  /\ UNCHANGED <<failedAt, err, thrown>>
  /\ NoLocals

\* Mutation: the message is not posted.
PostDropped(ok, m) == notifs' = notifs

\* chat.postMessage resolving (ok) posts the message m; rejecting posts nothing.
Post(ok, m) == notifs' = IF ok THEN Append(notifs, m) ELSE notifs

Status(status) == Message("sendStatus", "pipeline", StatusText(status), NoStats)

Plain(text) == Message("sendMessage", "pipeline", text, NoStats)

Summary(st) == Message("sendSummary", "pipeline", SummaryText(st), st)

ErrorMessage(by, error) == Message("sendError", by, ErrorText(error), NoStats)

(* ------------------ index.js: runPipeline's decisions ------------------ *)

\* Mutation: the zero test written as a sign test.
NoEngagersNegative(st) == st.engagers < 0

\* Mutation: the zero test written as a sign test.
NoneEnrichedNegative(st) == st.enriched < 0

\* Mutation: the contact count is also written over the engager count.
StatsAfterEnrichOverwrites(st, contacts) ==
  [st EXCEPT !.enriched = Len(contacts), !.engagers = Len(contacts)]

\* Mutation: the two counts of the delivery result are crossed.
StatsAfterDeliverySwapped(st, res) ==
  [st EXCEPT !.pushed = res.failed, !.failed = res.added]

\* Mutation: the failed count of the delivery result is not copied.
StatsAfterDeliveryNoFailed(st, res) == [st EXCEPT !.pushed = res.added]

\* Mutation: the catch throws a new error that wraps the caught one.
RethrownWrapped(error) == <<"Pipeline failed: ">> \o error

\* stats.engagers = profileUrls.length
StatsAfterScrape(st, urls) == [st EXCEPT !.engagers = Len(urls)]

\* if (stats.engagers === 0)
NoEngagers(st) == st.engagers = 0

\* stats.enriched = enrichedContacts.length
StatsAfterEnrich(st, contacts) == [st EXCEPT !.enriched = Len(contacts)]

\* if (stats.enriched === 0)
NoneEnriched(st) == st.enriched = 0

\* stats.pushed = smartleadResult.added; stats.failed = smartleadResult.failed
StatsAfterDelivery(st, res) ==
  [st EXCEPT !.pushed = res.added, !.failed = res.failed]

\* The text handed to sendError by the catch: `Pipeline failed: ${error.message}`
PipelineFailed(error) == <<"Pipeline failed: ">> \o error

\* throw error: what the catch re-throws once sendError has resolved.
Rethrown(error) == error

(* ------------------- slack.js: the message handler --------------------- *)

\* this.app.event('message', ...) up to the first await: an ignored event
\* returns at once and leaves no trace; a parsed trigger calls runPipeline,
\* which builds its stats and awaits sendStatus('Scraping ...'). The
\* thread of the new trigger is empty. Runs share no state (stats is a
\* local of runPipeline, the thread belongs to the trigger), so the model
\* follows one run at a time.
MessageEvent ==
  /\ pc = "idle"
  /\ \E event \in Events :
       IF Trigger(event) = None
       THEN UNCHANGED vars
       ELSE /\ handled' = "accepted"
            /\ pc' = "sendStatusScraping"
            /\ outcome' = "running"
            /\ failedAt' = "none"
            /\ err' = None
            /\ thrown' = None
            /\ stats' = InitialStats
            /\ calls' = <<>>
            /\ notifs' = <<>>
            /\ ret' = NothingReturned
            /\ NoLocals
  /\ UNCHANGED aside

\* The handler's catch (slack.js 197-200): await this.sendError(error.message).
\* Whether it resolves or rejects, the handler is finished with the event.
HandlerSendError ==
  /\ pc = "handlerSendError"
  /\ \E ok \in BOOLEAN : Post(ok, ErrorMessage("handler", thrown[1]))
  /\ pc' = "idle"
  /\ handled' = "done"
  /\ UNCHANGED <<outcome, failedAt, err, thrown>>
  /\ UNCHANGED <<stats, calls, ret, locals>>
  /\ UNCHANGED aside

(* ------------------- index.js: step 1, the scraper --------------------- *)

\* await slack.sendStatus('Scraping ...') settles; then getPostEngagers is
\* called and runActor awaits the POST that starts the actor run.
SendStatusScraping ==
  /\ pc = "sendStatusScraping"
  /\ \E ok \in BOOLEAN :
       /\ Post(ok, Status(<<"Scraping LinkedIn post engagers...">>))
       /\ IF ok
          THEN /\ calls' = Append(calls, "getPostEngagers")
               /\ Goto("startRun")
               /\ UNCHANGED locals
          ELSE /\ Catch(SlackError)
               /\ UNCHANGED calls
  /\ UNCHANGED <<stats, ret>>
  /\ UNCHANGED aside

\* Mutation: the loop counter is not advanced.
NextAttemptStuck(a) == a

\* attempt++ of waitForRun's for loop.
NextAttempt(a) == a + 1

\* attempt <= maxAttempts, the loop condition of waitForRun.
PollAgain(a) == a <= maxAttempts

\* Mutation: no status ends the polling with an error.
RunEndedNever(status) == FALSE

\* ['FAILED', 'ABORTED', 'TIMED-OUT'].includes(status)
RunEnded(status) == status \in {"FAILED", "ABORTED", "TIMED-OUT"}

\* runActor: the POST settles. A request error is wrapped and thrown; a run
\* not yet SUCCEEDED is polled by waitForRun, from attempt 1.
StartRun ==
  /\ pc = "startRun"
  /\ \/ /\ Catch(ActorFailed(RequestFailed))
        /\ UNCHANGED ret
     \/ \E status \in RunStatuses :
          /\ ret' = [ret EXCEPT !.status = Some(status)]
          /\ IF status # "SUCCEEDED"
             THEN IF PollAgain(1)
                  THEN /\ Goto("pollRun")
                       /\ attempt' = 1
                       /\ UNCHANGED <<profileUrls, enrich, deliver>>
                  ELSE Catch(ActorFailed(ActorRunTimedOut))
             ELSE /\ Goto("getDatasetItems")
                  /\ UNCHANGED locals
  /\ UNCHANGED <<stats, calls, notifs>>
  /\ UNCHANGED aside

\* waitForRun: the GET of the run settles.
PollRun ==
  /\ pc = "pollRun"
  /\ \/ /\ Catch(ActorFailed(RequestFailed))
        /\ UNCHANGED ret
     \/ \E status \in RunStatuses :
          /\ ret' = [ret EXCEPT !.status = Some(status)]
          /\ IF status = "SUCCEEDED"
             THEN /\ Goto("getDatasetItems")
                  /\ attempt' = 0
                  /\ UNCHANGED <<profileUrls, enrich, deliver>>
             ELSE IF RunEnded(status)
             THEN Catch(ActorFailed(ActorRunEnded(status)))
             ELSE /\ Goto("pollSleep")
                  /\ UNCHANGED locals
  /\ UNCHANGED <<stats, calls, notifs>>
  /\ UNCHANGED aside

\* waitForRun: sleep(intervalMs) is over; next attempt, or the time-out.
PollSleep ==
  /\ pc = "pollSleep"
  /\ IF PollAgain(NextAttempt(attempt))
     THEN /\ attempt' = NextAttempt(attempt)
          /\ Goto("pollRun")
          /\ UNCHANGED <<profileUrls, enrich, deliver>>
     ELSE Catch(ActorFailed(ActorRunTimedOut))
  /\ UNCHANGED <<stats, calls, notifs, ret>>
  /\ UNCHANGED aside

\* getDatasetItems settles: response.data || [], then getPostEngagers
\* extracts the profile URLs and runPipeline branches on their number.
\* A rejected request is wrapped by runActor; the TypeError that
\* extractProfileUrls throws on a null record is re-thrown as it is.
GetDatasetItems ==
  /\ pc = "getDatasetItems"
  /\ \/ /\ Catch(ActorFailed(RequestFailed))
        /\ UNCHANGED <<stats, ret>>
     \/ /\ Catch(CannotReadNull)
        /\ UNCHANGED <<stats, ret>>
     \/ \E data \in {None} \cup {Some(d) : d \in Datasets} :
          LET items == IF data = None THEN <<>> ELSE data[1]
              urls == EngagersOf(items)
              st == StatsAfterScrape(stats, urls)
          IN /\ profileUrls' = urls
             /\ ret' = [ret EXCEPT !.urls = Len(urls)]
             /\ stats' = st
             /\ IF NoEngagers(st)
                THEN Goto("sendNoEngagers")
                ELSE Goto("sendStatusEnriching")
             /\ UNCHANGED <<attempt, enrich, deliver>>
  /\ UNCHANGED <<calls, notifs>>
  /\ UNCHANGED aside

\* await slack.sendMessage('No engagers found for this post.'); return.
SendNoEngagers ==
  /\ pc = "sendNoEngagers"
  /\ \E ok \in BOOLEAN :
       /\ Post(ok, Plain(<<"No engagers found for this post.">>))
       /\ IF ok THEN Return ELSE Catch(SlackError)
  /\ UNCHANGED <<stats, calls, ret>>
  /\ UNCHANGED aside

(* ------------------ index.js: step 2, the enricher --------------------- *)

\* The positions of profileUrls that make up batch k.
BatchOf(k) == ChunkRange(Len(profileUrls), concurrency, k)

\* batches.length
NumBatches == NumChunks(Len(profileUrls), concurrency)

\* enrichProfiles returns contacts to runPipeline, which counts them and
\* branches; the per-URL results are kept until the run ends.
EnrichReturns(contacts) ==
  LET st == StatsAfterEnrich(stats, contacts)
  IN /\ stats' = st
     /\ ret' = [ret EXCEPT !.contacts = Len(contacts)]
     /\ enrichedContacts' = contacts
     /\ batch' = 0
     /\ slot' = <<>>
     /\ UNCHANGED results
     /\ IF NoneEnriched(st)
        THEN Goto("sendNoVerified")
        ELSE Goto("sendStatusPushing")

\* The for loop of enrichProfiles reaches batch k: batch.map posts one
\* people-match request per URL of the batch and Promise.all is awaited;
\* past the last batch the accumulated contacts are returned.
EnrichLoop(k, contacts) ==
  IF k <= NumBatches
  THEN /\ batch' = k
       /\ slot' = [i \in 1..Len(profileUrls) |->
                     IF i \in BatchOf(k) THEN "pending"
                     ELSE IF i \in DOMAIN slot THEN slot[i] ELSE "idle"]
       /\ results' = [i \in 1..Len(profileUrls) |->
                        IF i \in DOMAIN results THEN results[i] ELSE None]
       /\ enrichedContacts' = contacts
       /\ ret' = [ret EXCEPT !.waves = Append(@, BatchOf(k))]
       /\ Goto("enrichBatch")
       /\ UNCHANGED stats
  ELSE EnrichReturns(contacts)

\* await slack.sendStatus(`Enriching ${stats.engagers} profiles ...`)
\* settles; then enrichProfiles(profileUrls) is called.
SendStatusEnriching ==
  /\ pc = "sendStatusEnriching"
  /\ \E ok \in BOOLEAN :
       /\ Post(ok, Status(<<"Enriching ", ToString(stats.engagers),
                            " profiles with Apollo...">>))
       /\ IF ok
          THEN /\ calls' = Append(calls, "enrichProfiles")
               /\ EnrichLoop(1, <<>>)
               /\ UNCHANGED <<scrape, deliver>>
          ELSE /\ Catch(SlackError)
               /\ UNCHANGED <<calls, stats, ret>>
  /\ UNCHANGED aside

\* enrichProfile(url): the request is answered with something other than
\* 429; the call resolves to a contact or to null.
EnrichAnswered(i) ==
  /\ pc = "enrichBatch"
  /\ i \in DOMAIN slot
  /\ slot[i] = "pending"
  /\ \E response \in MatchResponses(profileUrls[i]) :
       /\ ~IsRateLimited(response)
       /\ results' = [results EXCEPT ![i] = EnrichedContact(profileUrls[i], response)]
  /\ slot' = [slot EXCEPT ![i] = "settled"]
  /\ UNCHANGED <<control, stats, calls, notifs, ret, scrape, deliver>>
  /\ UNCHANGED <<batch, enrichedContacts>>
  /\ UNCHANGED aside

\* enrichProfile(url): the request is answered 429; the call awaits sleep(5000).
EnrichRateLimited(i) ==
  /\ pc = "enrichBatch"
  /\ i \in DOMAIN slot
  /\ slot[i] = "pending"
  /\ \E response \in MatchResponses(profileUrls[i]) : IsRateLimited(response)
  /\ slot' = [slot EXCEPT ![i] = "sleeping"]
  /\ ret' = [ret EXCEPT !.retried = TRUE]
  /\ UNCHANGED <<control, stats, calls, notifs, scrape, deliver>>
  /\ UNCHANGED <<batch, results, enrichedContacts>>
  /\ UNCHANGED aside

\* Mutation: after the sleep the call resolves to null instead of retrying.
EnrichRetryGivesUp(i) ==
  /\ pc = "enrichBatch"
  /\ i \in DOMAIN slot
  /\ slot[i] = "sleeping"
  /\ slot' = [slot EXCEPT ![i] = "settled"]
  /\ UNCHANGED <<control, stats, calls, notifs, ret, scrape, deliver>>
  /\ UNCHANGED <<batch, results, enrichedContacts>>
  /\ UNCHANGED aside

\* enrichProfile(url): sleep(5000) is over; return this.enrichProfile(url)
\* posts the request for the same URL again.
EnrichRetry(i) ==
  /\ pc = "enrichBatch"
  /\ i \in DOMAIN slot
  /\ slot[i] = "sleeping"
  /\ slot' = [slot EXCEPT ![i] = "pending"]
  /\ UNCHANGED <<control, stats, calls, notifs, ret, scrape, deliver>>
  /\ UNCHANGED <<batch, results, enrichedContacts>>
  /\ UNCHANGED aside

\* Mutation: the results of a batch are pushed last first.
BatchContactsReversed(k) ==
  Flatten([j \in 1..Cardinality(BatchOf(k)) |->
             results[(k - 1) * concurrency + Cardinality(BatchOf(k)) + 1 - j]])

\* The non-null results of batch k, in the order of the batch.
BatchContacts(k) ==
  Flatten([j \in 1..Cardinality(BatchOf(k)) |-> results[(k - 1) * concurrency + j]])

\* Mutation: the delay also follows the last batch.
NotLastBatchAlways(k) == k <= NumBatches

\* batches.indexOf(batch) < batches.length - 1
NotLastBatch(k) == k < NumBatches

\* Mutation: the batch is awaited with Promise.race.
AnySettled(k) == \E i \in BatchOf(k) : slot[i] = "settled"

\* await Promise.all(promises): every call of batch k has settled.
AllSettled(k) == \A i \in BatchOf(k) : slot[i] = "settled"

\* Promise.all of the batch resolves: the non-null results are pushed; then
\* the inter-batch sleep(delayMs), or the return after the last batch.
BatchSettled ==
  /\ pc = "enrichBatch"
  /\ AllSettled(batch)
  /\ LET contacts == enrichedContacts \o BatchContacts(batch)
     IN IF NotLastBatch(batch)
        THEN /\ enrichedContacts' = contacts
             /\ ret' = [ret EXCEPT !.delays = @ + 1]
             /\ Goto("batchDelay")
             /\ UNCHANGED <<batch, slot, results, stats>>
        ELSE EnrichReturns(contacts)
  /\ UNCHANGED <<calls, notifs, scrape, deliver>>
  /\ UNCHANGED aside

\* sleep(delayMs) between batches is over: the next batch is dispatched.
BatchDelay ==
  /\ pc = "batchDelay"
  /\ EnrichLoop(batch + 1, enrichedContacts)
  /\ UNCHANGED <<calls, notifs, scrape, deliver>>
  /\ UNCHANGED aside

\* await slack.sendMessage('No verified emails found ...') settles; then
\* slack.sendSummary(stats) is awaited.
SendNoVerified ==
  /\ pc = "sendNoVerified"
  /\ \E ok \in BOOLEAN :
       /\ Post(ok, Plain(<<"No verified emails found from Apollo enrichment.">>))
       /\ IF ok
          THEN /\ Goto("sendSummaryNoVerified")
               /\ UNCHANGED locals
          ELSE Catch(SlackError)
  /\ UNCHANGED <<stats, calls, ret>>
  /\ UNCHANGED aside

\* await slack.sendSummary(stats) of the no-verified-emails branch; return.
SendSummaryNoVerified ==
  /\ pc = "sendSummaryNoVerified"
  /\ \E ok \in BOOLEAN :
       /\ Post(ok, Summary(stats))
       /\ IF ok THEN Return ELSE Catch(SlackError)
  /\ UNCHANGED <<stats, calls, ret>>
  /\ UNCHANGED aside

(* ---------------- index.js: step 3, the delivery submitter ------------- *)

\* contacts.map(contact => this.formatLead(contact))
FormattedLeads(contacts) == [i \in 1..Len(contacts) |-> formatLead(contacts[i])]

\* addLeads returns res to runPipeline, which copies the counts into stats
\* and awaits slack.sendSummary(stats); history is the record of what
\* happened so far.
DeliveryReturns(history, res) ==
  /\ smartleadResult' = Some(res)
  /\ ret' = [history EXCEPT !.added = res.added, !.failed = res.failed]
  /\ stats' = StatsAfterDelivery(stats, res)
  /\ Goto("sendSummary")

\* await slack.sendStatus(`Pushing ${stats.enriched} leads ...`) settles;
\* then addLeads(enrichedContacts) is called: no contacts return at once,
\* otherwise the bulk POST is awaited.
SendStatusPushing ==
  /\ pc = "sendStatusPushing"
  /\ \E ok \in BOOLEAN :
       /\ Post(ok, Status(<<"Pushing ", ToString(stats.enriched),
                            " leads to Smartlead...">>))
       /\ IF ok
          THEN /\ calls' = Append(calls, "addLeads")
               /\ IF Len(enrichedContacts) = 0
                  THEN DeliveryReturns(ret, [added |-> 0, failed |-> 0])
                  ELSE /\ Goto("bulkPost")
                       /\ UNCHANGED <<stats, ret, smartleadResult>>
               /\ UNCHANGED <<scrape, enrich, leadIdx, addedCount, failedCount, leads>>
          ELSE /\ Catch(SlackError)
               /\ UNCHANGED <<calls, stats, ret>>
  /\ UNCHANGED aside

\* addLeadsIndividually's loop reaches lead i: its POST is awaited; past
\* the last lead the counts (and the per-contact results) are returned.
IndividualLoop(history, i, added, failed, outcomes) ==
  /\ addedCount' = added
  /\ failedCount' = failed
  /\ leads' = outcomes
  /\ IF i <= Len(enrichedContacts)
     THEN /\ leadIdx' = i
          /\ Goto("individualPost")
          /\ ret' = history
          /\ UNCHANGED <<stats, smartleadResult>>
     ELSE /\ leadIdx' = 0
          /\ DeliveryReturns(history, [added |-> added, failed |-> failed])

\* Mutation: the bulk POST is not wrapped in a try; its rejection propagates.
BulkPostUncaught ==
  /\ pc = "bulkPost"
  /\ Catch(RequestFailed)
  /\ UNCHANGED <<stats, calls, notifs, ret, aside>>

\* addLeads: the bulk POST settles. A rejected request, or a response
\* whose body cannot be read (result is null), lands in the catch, which
\* falls back to addLeadsIndividually; otherwise the counts are returned.
BulkPost ==
  /\ pc = "bulkPost"
  /\ \/ IndividualLoop([ret EXCEPT !.bulk = "rejected"], 1, 0, 0, <<>>)
     \/ \E body \in BulkBodies(Len(enrichedContacts)) :
          IF body = None
          THEN IndividualLoop([ret EXCEPT !.bulk = "answered"], 1, 0, 0, <<>>)
          ELSE /\ DeliveryReturns([ret EXCEPT !.bulk = "answered"],
                                  BulkResult(body[1], FormattedLeads(enrichedContacts)))
               /\ UNCHANGED <<leadIdx, addedCount, failedCount, leads>>
  /\ UNCHANGED <<calls, notifs, scrape, enrich>>
  /\ UNCHANGED aside

\* addLeadsIndividually's try: addedCount++ when the POST resolved.
AddedAfter(success, added) == IF success THEN added + 1 ELSE added

\* Mutation: a failed POST is not counted.
FailedAfterUncounted(success, failed) == failed

\* addLeadsIndividually's catch: failedCount++ when the POST rejected.
FailedAfter(success, failed) == IF success THEN failed ELSE failed + 1

\* addLeadsIndividually: the POST of one lead settles; its outcome is
\* recorded and counted, and sleep(200) is awaited.
IndividualPost ==
  /\ pc = "individualPost"
  /\ \E success \in BOOLEAN :
       /\ leads' = Append(leads, [success |-> success,
                                  email |-> FormattedLeads(enrichedContacts)[leadIdx].email])
       /\ addedCount' = AddedAfter(success, addedCount)
       /\ failedCount' = FailedAfter(success, failedCount)
  /\ Goto("individualSleep")
  /\ UNCHANGED <<stats, calls, notifs, ret, scrape, enrich, leadIdx, smartleadResult>>
  /\ UNCHANGED aside

\* addLeadsIndividually: sleep(200) is over; the next lead, or the return.
IndividualSleep ==
  /\ pc = "individualSleep"
  /\ IndividualLoop(ret, leadIdx + 1, addedCount, failedCount, leads)
  /\ UNCHANGED <<calls, notifs, scrape, enrich>>
  /\ UNCHANGED aside

\* await slack.sendSummary(stats) settles; runPipeline returns.
SendSummary ==
  /\ pc = "sendSummary"
  /\ \E ok \in BOOLEAN :
       /\ Post(ok, Summary(stats))
       /\ IF ok THEN Return ELSE Catch(SlackError)
  /\ UNCHANGED <<stats, calls, ret>>
  /\ UNCHANGED aside

(* ------------------ index.js: the catch of runPipeline ----------------- *)

\* await slack.sendError(`Pipeline failed: ${error.message}`) settles.
\* Resolved, the caught error is re-thrown; rejected, runPipeline rejects
\* with the notifier's error instead. Either way the handler's catch runs
\* and awaits its own sendError.
SendError ==
  /\ pc = "sendError"
  /\ \E ok \in BOOLEAN :
       /\ Post(ok, ErrorMessage("pipeline", PipelineFailed(err[1])))
       /\ thrown' = IF ok THEN Some(Rethrown(err[1])) ELSE Some(SlackError)
  /\ pc' = "handlerSendError"
  /\ outcome' = "threw"
  /\ UNCHANGED <<handled, failedAt, err>>
  /\ UNCHANGED <<stats, calls, ret, locals>>
  /\ UNCHANGED aside

(* --------------------------- specifications ---------------------------- *)

\* The profile positions an enrichProfile call can belong to.
Profiles == 1..MaxEngagers

\* A step of the run in progress or of the handler's catch.
RunStep ==
  \/ HandlerSendError
  \/ SendStatusScraping
  \/ StartRun
  \/ PollRun
  \/ PollSleep
  \/ GetDatasetItems
  \/ SendNoEngagers
  \/ SendStatusEnriching
  \/ \E i \in Profiles : EnrichAnswered(i)
  \/ \E i \in Profiles : EnrichRateLimited(i)
  \/ \E i \in Profiles : EnrichRetry(i)
  \/ BatchSettled
  \/ BatchDelay
  \/ SendNoVerified
  \/ SendSummaryNoVerified
  \/ SendStatusPushing
  \/ BulkPost
  \/ IndividualPost
  \/ IndividualSleep
  \/ SendSummary
  \/ SendError

Next == MessageEvent \/ RunStep

Spec == Init /\ [][Next]_vars

\* Every awaited call or timer of the run eventually settles.
CallsSettle ==
  /\ WF_vars(RunStep)
  /\ \A i \in Profiles : WF_vars(EnrichRetry(i))
  /\ \A i \in Profiles : WF_vars(EnrichAnswered(i) \/ EnrichRateLimited(i))

\* Calls settle, and the people-match backend may answer 429 as long as it likes.
FairSpec == Spec /\ CallsSettle

\* Calls settle, and rate-limiting ceases: while requests are posted again
\* and again, one of them is eventually answered with something other than
\* 429 (implied by every URL's rate-limiting ceasing eventually).
LiveSpec ==
  Spec /\ WF_vars(RunStep) /\ SF_vars(\E i \in Profiles : EnrichAnswered(i))

(* ------------------------ two interleaved runs ------------------------- *)

\* Mutation: stats is one object of the module, shared by all runs.
ResumedStatsShared(own, current) == current

\* const stats = {...} is a local of each call of runPipeline: the run that
\* resumes finds its own object, whatever the run that was executing (whose
\* object is current) did meanwhile.
ResumedStats(own, current) == own

\* The event loop turns from the invocation it was executing, suspended
\* at an await (or not yet started, or finished), to the other one, which
\* continues with its own locals, thread and trigger.
Resume ==
  /\ pc' = peer.pc
  /\ handled' = peer.handled
  /\ outcome' = peer.outcome
  /\ failedAt' = peer.failedAt
  /\ err' = peer.err
  /\ thrown' = peer.thrown
  /\ stats' = ResumedStats(peer.stats, stats)
  /\ calls' = peer.calls
  /\ notifs' = peer.notifs
  /\ ret' = peer.ret
  /\ attempt' = peer.attempt
  /\ profileUrls' = peer.profileUrls
  /\ batch' = peer.batch
  /\ slot' = peer.slot
  /\ results' = peer.results
  /\ enrichedContacts' = peer.enrichedContacts
  /\ leadIdx' = peer.leadIdx
  /\ addedCount' = peer.addedCount
  /\ failedCount' = peer.failedCount
  /\ leads' = peer.leads
  /\ smartleadResult' = peer.smartleadResult
  /\ peer' = Run
  /\ UNCHANGED applied

\* Two invocations of the handler whose steps interleave, each scraping at
\* most MaxInterleavedEngagers profiles and polling at most
\* MaxInterleavedPolls times.
ConcNext ==
  \/ /\ Next
     /\ Len(profileUrls') <= MaxInterleavedEngagers
     /\ attempt' <= MaxInterleavedPolls
  \/ Resume

ConcSpec == Init /\ [][ConcNext]_vars

(* -------------------- methods applied on their own --------------------- *)

\* Nothing of a run changes while a method is applied on its own.
NoRun == UNCHANGED <<control, stats, calls, notifs, ret, locals, peer>>

\* The method f is about to be applied to one of args.
Applying(f, args) ==
  /\ call = f
  /\ arg \in args
  /\ val = None

\* The method applied returns (or throws) result.
Yields(result) ==
  /\ val = None
  /\ val' = Some(result)
  /\ UNCHANGED <<call, arg>>
  /\ NoRun

\* enrichProfile's argument and the answer its request gets (other than
\* 429), with every email_status for every profile.
LookupArgs ==
  UNION {{[linkedinUrl |-> u, response |-> r] :
            r \in {x \in Answers(u, EmailStatuses) : ~IsRateLimited(x)}} :
         u \in Profiles}

\* enrichProfile(linkedinUrl) resolves.
ApplyEnrichProfile ==
  /\ call = "enrichProfile"
  /\ Yields(EnrichedContact(arg.linkedinUrl, arg.response))

\* addLeads' formatted leads and the body of a successful bulk upload.
BulkArgs ==
  UNION {{[formattedLeads |-> FormattedLeads([i \in 1..n |->
                                 EnrichedContact(i, [code |-> 200,
                                   person |-> Some([email |-> i,
                                                    email_status |-> Some("verified")])])[1]]),
           result |-> b[1]] : b \in BulkBodies(n) \ {None}} :
         n \in 1..MaxEngagers}

\* addLeads, lines 90-102: the bulk upload was answered; the counts are returned.
ApplyBulkResult ==
  /\ call = "addLeads"
  /\ Yields(BulkResult(arg.result, arg.formattedLeads))

\* The message handler receives an event: it starts a run with the parsed
\* trigger, or returns early.
ApplyMessage ==
  /\ call = "message"
  /\ Yields(Trigger(arg))

\* k '/' characters.
Slashes(k) == [i \in 1..k |-> "/"]

\* URLs by their parts: scheme, www. prefix, host, path, trailing slashes
\* and query string.
UrlParts ==
  [scheme : {<<>>, <<"http:", "/", "/">>, <<"https:", "/", "/">>},
   www : {<<>>, <<"www.">>},
   host : {<<"linkedin.com">>, <<"example.com">>},
   path : {<<>>, <<"/", "in", "/", "a">>, <<"/", "in", "/", "b">>,
           <<"/", "company", "/", "a">>},
   slashes : 0..MaxSlashes,
   query : {<<>>, <<"?", "trk=x">>, <<"?", "trk=x", "/">>,
            <<"?", "u=", "linkedin.com", "/", "in", "/", "b">>}]

\* The string of a URL given by its parts.
Render(parts) ==
  parts.scheme \o parts.www \o parts.host \o parts.path
    \o Slashes(parts.slashes) \o parts.query

\* normalizeLinkedInUrl(url) returns.
ApplyNormalize ==
  /\ call = "normalizeLinkedInUrl"
  /\ Yields(normalizeLinkedInUrl(Str(Render(arg))))

\* Values that are no URL: null, undefined, a number, the empty string, a
\* text and an object.
NonUrls ==
  {Null, Undefined, Num(5), Str(<<>>), Str(<<"text">>),
   Obj([url |-> Str(<<"linkedin.com">>)])}

\* normalizeLinkedInUrl(value) returns, for a value that is no URL.
ApplyNormalizeValue ==
  /\ call = "normalizeLinkedInUrl(value)"
  /\ Yields(normalizeLinkedInUrl(arg))

\* A URL string of the given parts.
Url(scheme, www, host, path, slashes, query) ==
  Str(Render([scheme |-> scheme, www |-> www, host |-> host, path |-> path,
              slashes |-> slashes, query |-> query]))

\* Field values: profile URLs in several spellings, a company URL, a URL
\* of another site, and values that are not strings.
FieldValues ==
  {Url(<<"https:", "/", "/">>, <<"www.">>, <<"linkedin.com">>, <<"/", "in", "/", "a">>, 0, <<>>),
   Url(<<"http:", "/", "/">>, <<"www.">>, <<"linkedin.com">>, <<"/", "in", "/", "a">>, 1,
       <<"?", "trk=x">>),
   Url(<<"https:", "/", "/">>, <<>>, <<"linkedin.com">>, <<"/", "in", "/", "a">>, 0, <<>>),
   Url(<<"https:", "/", "/">>, <<"www.">>, <<"linkedin.com">>, <<"/", "company", "/", "a">>, 0,
       <<>>),
   Url(<<"https:", "/", "/">>, <<"www.">>, <<"example.com">>, <<"/", "in", "/", "a">>, 0, <<>>),
   Url(<<"https:", "/", "/">>, <<"www.">>, <<"example.com">>, <<"/", "in", "/", "a">>, 0,
       <<"?", "u=", "linkedin.com", "/", "in", "/", "b">>),
   Num(5), Null}

\* Elements of a post's collections: null, primitives, and objects with a
\* URL field, an identifier, a nested object or a comment's author.
Items ==
  {Null, Num(5), Str(<<"text">>)}
    \cup {Obj([profileUrl |-> v]) : v \in FieldValues}
    \cup {Obj([publicId |-> Str(<<"a">>)]),
          Obj([publicId |-> Str(<<"a", "/">>)]),
          Obj([publicIdentifier |-> Str(<<"b">>), url |-> Num(5)]),
          Obj([actor |-> Obj([vanityName |-> Str(<<"a">>)])]),
          Obj([actor |-> Null]),
          Obj([text |-> Str(<<"text">>),
               author |-> Obj([publicId |-> Str(<<"a">>)])])}

\* Records of a dataset: null, a primitive, and posts with an author URL
\* or with one collection, which may be something other than an array.
Records ==
  {Null, Num(5)}
    \cup {Obj([authorProfileUrl |-> v]) : v \in FieldValues}
    \cup {Obj([reactions |-> Arr(<<item>>)]) : item \in Items}
    \cup {Obj([comments |-> Arr(<<item>>)]) : item \in Items}
    \cup {Obj([reactions |-> Num(5), likers |-> Arr(<<Obj([publicId |-> Str(<<"b">>)])>>)]),
          Obj([likes |-> Arr(<<Obj([publicId |-> Str(<<"b">>)])>>)]),
          Obj([comments |-> Num(5),
               commenters |-> Arr(<<Obj([publicId |-> Str(<<"b">>)])>>)]),
          Obj([commenters |-> Arr(<<Obj([publicId |-> Str(<<"b">>)])>>)]),
          Obj([engagements |-> Obj([count |-> Num(5)])])}

\* The datasets extractProfileUrls is applied to.
RecordLists == UNION {[1..k -> Records] : k \in 0..MaxPosts}

\* extractProfileUrls(postData) returns or throws.
ApplyExtract ==
  /\ call = "extractProfileUrls"
  /\ Yields(ExtractOutcome(arg))

MethodInit ==
  /\ Started
  /\ \/ Applying("enrichProfile", LookupArgs)
     \/ Applying("addLeads", BulkArgs)
     \/ Applying("message", Events)
     \/ Applying("normalizeLinkedInUrl", UrlParts)
     \/ Applying("normalizeLinkedInUrl(value)", NonUrls)
     \/ Applying("extractProfileUrls", RecordLists)

MethodNext ==
  \/ ApplyEnrichProfile
  \/ ApplyBulkResult
  \/ ApplyMessage
  \/ ApplyNormalize
  \/ ApplyNormalizeValue
  \/ ApplyExtract

\* Each method applied once to each of its bounded arguments.
MethodSpec == MethodInit /\ [][MethodNext]_vars

(* ------------------------ vocabulary of the claims --------------------- *)

\* The positions in the thread of the messages posted through method fn.
Sent(fn) == {i \in 1..Len(notifs) : notifs[i].fn = fn}

\* The awaits of each stage.
ScraperAwaits == {"startRun", "pollRun", "pollSleep", "getDatasetItems"}

EnricherAwaits == {"enrichBatch", "batchDelay"}

DeliveryAwaits == {"bulkPost", "individualPost", "individualSleep"}

\* The run is over: runPipeline has returned (Done) or thrown (Errored), and
\* the handler is finished with the trigger.
RunOver == pc = "idle" /\ outcome \in {"returned", "threw"}

Done == outcome = "returned"

Errored == outcome = "threw"

NoEngagersText == <<"No engagers found for this post.">>

NoVerifiedText == <<"No verified emails found from Apollo enrichment.">>

(* -------------------------------- claims -------------------------------- *)

\* C1: in every run the stages are invoked in the order getPostEngagers,
\* enrichProfiles, addLeads, each at most once; enrichProfiles only after
\* the scraper returned at least one profile URL, addLeads only after the
\* enricher returned at least one contact.
C1_StageOrder ==
  /\ \E k \in 0..3 :
       calls = SubSeq(<<"getPostEngagers", "enrichProfiles", "addLeads">>, 1, k)
  /\ (\E i \in 1..Len(calls) : calls[i] = "enrichProfiles") => ret.urls > 0
  /\ (\E i \in 1..Len(calls) : calls[i] = "addLeads") => ret.contacts > 0

\* A finished run that invoked all three stages.
C1_Witness ==
  /\ RunOver
  /\ calls = <<"getPostEngagers", "enrichProfiles", "addLeads">>

\* C2: a run that invoked the delivery submitter and returned (nothing
\* threw) has posted exactly one summary, whose statistics are the number
\* of URLs the scraper returned, the number of contacts the enricher
\* returned and the added and failed counts the submitter returned; and a
\* summary, once posted, always shows the statistics the run still holds.
C2_SummaryStats ==
  /\ \A i \in Sent("sendSummary") : notifs[i].stats = stats
  /\ (Done /\ ret.added >= 0) =>
       /\ Cardinality(Sent("sendSummary")) = 1
       /\ \A i \in Sent("sendSummary") :
            notifs[i].stats = [engagers |-> ret.urls, enriched |-> ret.contacts,
                               pushed |-> ret.added, failed |-> ret.failed]

\* A returned run whose delivery added some leads and failed on more.
C2_Witness ==
  /\ Done
  /\ ret.added > 0
  /\ ret.failed > ret.added
  /\ ret.urls > ret.contacts

PipelineErrors == {i \in Sent("sendError") : notifs[i].by = "pipeline"}

\* A stage (not the notifier) threw.
StageThrew == failedAt \in ScraperAwaits \cup EnricherAwaits \cup DeliveryAwaits

\* The stages invoked up to and including the one that owns the await l.
CallsUpTo(l) ==
  IF l \in ScraperAwaits THEN <<"getPostEngagers">>
  ELSE IF l \in EnricherAwaits THEN <<"getPostEngagers", "enrichProfiles">>
  ELSE <<"getPostEngagers", "enrichProfiles", "addLeads">>

\* C4 as claimed: a run in which a stage threw posts an error notification
\* containing the failure reason, re-throws the same error to its caller,
\* posts no summary and invokes no later stage.
C4_Original ==
  (StageThrew /\ RunOver) =>
    /\ Errored
    /\ \E i \in Sent("sendError") : Contains(notifs[i].text, err[1])
    /\ thrown = err
    /\ Sent("sendSummary") = {}
    /\ calls = CallsUpTo(failedAt)

\* C4 as amended: when a stage throws, no later stage is invoked and no
\* summary is posted; runPipeline throws (Errored) once its sendError has
\* settled; if that sendError was posted, the notification contains the
\* failure reason and the error thrown to the caller is the stage's error.
C4_StageThrows ==
  StageThrew =>
    /\ calls = CallsUpTo(failedAt)
    /\ Sent("sendSummary") = {}
    /\ ~Done
    /\ pc \in {"sendError", "handlerSendError", "idle"}
    /\ pc # "sendError" => Errored
    /\ (Errored /\ PipelineErrors # {}) =>
         /\ \A i \in PipelineErrors : Contains(notifs[i].text, err[1])
         /\ thrown = err
    /\ (Errored /\ PipelineErrors = {}) => thrown = Some(SlackError)

\* The actor run was reported FAILED while polled; the run is over, the
\* pipeline's error notification was posted.
C4_Witness ==
  /\ RunOver
  /\ failedAt = "pollRun"
  /\ err = Some(ActorFailed(ActorRunEnded("FAILED")))
  /\ PipelineErrors # {}

\* C5: a run started through the message handler in which a stage is fatal
\* leaves a single error message in the thread, never a second one.
C5_SingleErrorMessage ==
  (StageThrew /\ RunOver) => Cardinality(Sent("sendError")) <= 1

C7_ZeroSummary ==
  (ret.urls = 0 /\ Done) =>
    \E i \in Sent("sendSummary") : notifs[i].stats = InitialStats

\* C8 as claimed: when the scraper returns n > 0 URLs and the enricher no
\* contact, the run posts the 'no verified emails' message followed by a
\* summary {n, 0, 0, 0} and ends in Done without error and without invoking
\* the delivery submitter.
C8_Original ==
  (ret.urls > 0 /\ ret.contacts = 0 /\ RunOver) =>
    /\ Done
    /\ Sent("sendError") = {}
    /\ calls = <<"getPostEngagers", "enrichProfiles">>
    /\ \E i \in Sent("sendSummary") :
         /\ notifs[i].stats = [InitialStats EXCEPT !.engagers = ret.urls]
         /\ i > 1
         /\ notifs[i - 1].text = NoVerifiedText

\* C8 as amended: when the scraper returns n > 0 URLs and the enricher no
\* contact, the delivery submitter is never invoked and only the posting
\* of the 'no verified emails' message or of the summary can fail; unless
\* one does, the run ends in Done without an error notification, its last
\* two messages being 'no verified emails' and the summary {n, 0, 0, 0}.
C8_NoneEnriched ==
  (ret.urls > 0 /\ ret.contacts = 0) =>
    /\ calls = <<"getPostEngagers", "enrichProfiles">>
    /\ failedAt \in {"none", "sendNoVerified", "sendSummaryNoVerified"}
    /\ failedAt = "none" =>
         /\ pc \in {"sendNoVerified", "sendSummaryNoVerified", "idle"}
         /\ ~Errored
         /\ Sent("sendError") = {}
         /\ RunOver =>
              /\ Done
              /\ Len(notifs) >= 2
              /\ notifs[Len(notifs)].fn = "sendSummary"
              /\ notifs[Len(notifs)].stats = [InitialStats EXCEPT !.engagers = ret.urls]
              /\ notifs[Len(notifs) - 1].fn = "sendMessage"
              /\ notifs[Len(notifs) - 1].text = NoVerifiedText

\* A run over two batches of profiles, none with a verified email.
C8_Witness ==
  /\ RunOver
  /\ Done
  /\ ret.urls > concurrency
  /\ ret.contacts = 0

\* The messages of the thread that runPipeline posted.
PostedByPipeline(thread) == SelectSeq(thread, LAMBDA m : m.by = "pipeline")

\* C9: under LiveSpec (every awaited call or timer settles, no URL is
\* rate-limited forever) a run accepted into Scraping eventually reaches
\* Done or Errored; and from then on, until the next trigger is accepted,
\* the run awaits no backend, invokes no stage and posts no message.
C9_RunTerminates ==
  /\ (outcome = "running") ~> (Done \/ Errored)
  /\ [][((Done \/ Errored) /\ outcome' # "running") =>
          /\ outcome' = outcome
          /\ pc' \in {"idle", "handlerSendError"}
          /\ calls' = calls
          /\ PostedByPipeline(notifs') = PostedByPipeline(notifs)
          /\ UNCHANGED <<stats, ret, thrown, locals>>]_vars

\* A run in its second enrichment batch with a rate-limited request asleep.
C9_Witness ==
  /\ outcome = "running"
  /\ pc = "enrichBatch"
  /\ batch = 2
  /\ \E i \in DOMAIN slot : slot[i] = "sleeping"

\* C10: the rate-limit recovery of enrichProfile is bounded, so the
\* enrichment stage ends even if the backend answers every request of
\* some URL with 429 (FairSpec: calls and timers settle, 429 is unrestricted).
C10_RetryBounded == (pc = "enrichBatch") ~> (pc # "enrichBatch")

InFlight == {i \in DOMAIN slot : slot[i] \in {"pending", "sleeping"}}

\* C12: at every moment of an enrichProfiles call the calls in flight
\* (sleeping and retrying ones included) belong to the batch being processed
\* and are no more than the batch width; while a batch is being awaited
\* every call of an earlier batch has settled and none of a later batch has
\* been issued.
C12_OneBatchInFlight ==
  /\ Cardinality(InFlight) <= concurrency
  /\ InFlight # {} => pc = "enrichBatch"
  /\ pc = "enrichBatch" =>
       /\ InFlight \subseteq ret.waves[batch]
       /\ batch = Len(ret.waves)
       /\ \A k \in 1..(batch - 1) : \A i \in ret.waves[k] : slot[i] = "settled"
       /\ \A i \in DOMAIN slot :
            (\A k \in 1..batch : i \notin ret.waves[k]) => slot[i] = "idle"

\* The first batch is in flight at full width, one of its calls asleep
\* after a 429, and a URL of the second batch has not been issued.
C12_Witness ==
  /\ pc = "enrichBatch"
  /\ batch = 1
  /\ Cardinality(InFlight) = concurrency
  /\ \E i \in InFlight : slot[i] = "sleeping"
  /\ \E i \in DOMAIN slot : slot[i] = "idle"

\* C13: enrichProfile yields a contact exactly when the answer carries a
\* person with a non-empty email whose email_status is "verified"; no
\* person, an empty or absent email, or an email_status that is "guessed",
\* "unavailable" or absent yields null.
C13_VerifiedOnly ==
  (call = "enrichProfile" /\ val # None) =>
    LET response == arg.response
        verified == /\ response.code = 200
                    /\ response.person # None
                    /\ response.person[1].email # 0
                    /\ response.person[1].email_status = Some("verified")
    IN /\ (val[1] # None) <=> verified
       /\ val[1] # None => val[1][1].email # 0

\* C14: a lookup that fails other than by rate limiting never aborts the
\* enrichment, and the list enrichProfiles returns holds exactly one
\* contact for every URL whose own lookup succeeded with a verified email,
\* and nothing else.
C14_IndependentLookups ==
  /\ failedAt \notin EnricherAwaits
  /\ (ret.contacts >= 0 /\ results # <<>>) =>
       /\ enrichedContacts = Flatten(results)
       /\ \A i \in 1..Len(enrichedContacts) :
            enrichedContacts[i].emailStatus = Some("verified")

\* The positions of the per-contact outcome list with the given outcome.
Outcomes(success) == {j \in 1..Len(leads) : leads[j].success = success}

\* C15: when the bulk submission fails, addLeads submits the contacts one
\* by one, each exactly once and in order, whatever the earlier individual
\* submissions did, and returns added + failed equal to the number of
\* contacts, with an outcome list of that length whose successes number
\* added and whose failures number failed.
C15_Fallback ==
  /\ pc \in {"individualPost", "individualSleep"} =>
       /\ leadIdx \in 1..Len(enrichedContacts)
       /\ Len(leads) = IF pc = "individualPost" THEN leadIdx - 1 ELSE leadIdx
       /\ addedCount + failedCount = Len(leads)
  /\ leads # <<>> =>
       /\ \A j \in 1..Len(leads) : leads[j].email = enrichedContacts[j].email
       /\ ret.added >= 0 =>
            /\ Len(leads) = Len(enrichedContacts)
            /\ ret.added + ret.failed = Len(enrichedContacts)
            /\ Cardinality(Outcomes(TRUE)) = ret.added
            /\ Cardinality(Outcomes(FALSE)) = ret.failed

\* addLeads has returned from the fallback: the first individual
\* submission failed, a later one succeeded and the last one failed.
C15_Witness ==
  /\ pc = "sendSummary"
  /\ Len(leads) >= 3
  /\ ~leads[1].success
  /\ leads[2].success
  /\ ~leads[Len(leads)].success

\* C16: addLeads never throws for a delivery failure: no await of the
\* delivery stage ever enters runPipeline's catch; whatever the bulk and the
\* individual submissions do, the step that ends the stage returns added
\* and failed counts to runPipeline, which goes on to the summary; a run
\* that called addLeads ends Errored only if the summary's posting failed.
C16_NeverThrows ==
  /\ [](failedAt \notin DeliveryAwaits)
  /\ []((Errored /\ ret.added >= 0) => failedAt = "sendSummary")
  /\ [][(pc \in DeliveryAwaits) =>
          /\ pc' \in DeliveryAwaits \cup {"sendSummary"}
          /\ pc' = "sendSummary" =>
               /\ ret'.added >= 0
               /\ ret'.failed >= 0
               /\ stats'.pushed = ret'.added
               /\ stats'.failed = ret'.failed]_vars

\* The bulk submission failed and so did every individual one; addLeads
\* has returned and the summary is being posted.
C16_Witness ==
  /\ pc = "sendSummary"
  /\ failedAt = "none"
  /\ Len(leads) >= 2
  /\ Outcomes(FALSE) = 1..Len(leads)

\* C17: on a successful bulk submission addLeads returns the counts the
\* backend reports: added is the reported upload count whenever the body
\* states one, 0 included, and failed the reported failed count; only when
\* the body states no count is added the number of leads submitted, and
\* only when it states no failed count is failed 0.
C17_ReportedCounts ==
  (call = "addLeads" /\ val # None) =>
    LET result == arg.result
        n == Len(arg.formattedLeads)
    IN /\ result.upload_count # None => val[1].added = result.upload_count[1]
       /\ (result.upload_count = None /\ result.total_leads = None) =>
            val[1].added = n
       /\ result.failed_count # None => val[1].failed = result.failed_count[1]
       /\ result.failed_count = None => val[1].failed = 0

\* A LinkedIn URL with a scheme.
IsLinkedInUrl(parts) == parts.host = <<"linkedin.com">> /\ parts.scheme # <<>>

\* C18: normalizeLinkedInUrl maps a LinkedIn URL and every URL that
\* differs from it only by scheme (http or https), by trailing '/'
\* characters or by a query string to the same string, the https URL
\* without trailing slash and query, so that the two are one entry of the
\* extractor's set.
C18_Canonical ==
  (call = "normalizeLinkedInUrl" /\ val # None /\ IsLinkedInUrl(arg)) =>
    /\ val[1] = Some(<<"https:", "/", "/">> \o arg.www \o arg.host \o arg.path)
    /\ \A other \in UrlParts :
         (/\ IsLinkedInUrl(other)
          /\ other.www = arg.www
          /\ other.path = arg.path) =>
           /\ normalizeLinkedInUrl(Str(Render(other))) = val[1]
           /\ Len(AddAll(Normalized(Str(Render(arg))),
                         Normalized(Str(Render(other))))) = 1

\* 'http://linkedin.com/in/a//?trk=x/' was normalized to
\* 'https://linkedin.com/in/a'.
C18_Witness ==
  /\ call = "normalizeLinkedInUrl"
  /\ arg = [scheme |-> <<"http:", "/", "/">>, www |-> <<>>,
            host |-> <<"linkedin.com">>, path |-> <<"/", "in", "/", "a">>,
            slashes |-> MaxSlashes, query |-> <<"?", "trk=x", "/">>]
  /\ val = Some(Some(<<"https:", "/", "/", "linkedin.com", "/", "in", "/", "a">>))

\* C19: every URL extractProfileUrls returns has the form
\* 'https://www.linkedin.com/in/<identifier>': that prefix, a non-empty
\* identifier, no '/' at the end and no query string.
C19_CanonicalForm ==
  (call = "extractProfileUrls" /\ val # None /\ ~val[1].threw) =>
    \A i \in 1..Len(val[1].value) :
      LET url == val[1].value[i]
      IN /\ StartsWith(url, ProfilePrefix)
         /\ Len(url) > Len(ProfilePrefix)
         /\ url[Len(url)] # "/"
         /\ \A k \in 1..Len(url) : url[k] # "?"

\* C20: extractProfileUrls never throws, whatever the shape of the records
\* and of the elements of their collections; it returns a list, to which
\* records that are null or not objects contribute nothing.
C20_NeverRaises ==
  (call = "extractProfileUrls" /\ val # None) =>
    /\ ~val[1].threw
    /\ (\A i \in 1..Len(arg) : arg[i].t # "object") => val[1].value = <<>>

\* C21: what is not a LinkedIn URL is dropped: normalizeLinkedInUrl returns
\* null for null, for a value that is not a string, for the empty string
\* and for a string that does not contain 'linkedin.com'; every string it
\* returns, and every element of extractProfileUrls' result, contains
\* 'linkedin.com', also when the input has it only in its query string.
C21_OnlyLinkedIn ==
  /\ (call = "normalizeLinkedInUrl(value)" /\ val # None) => val[1] = None
  /\ (call = "normalizeLinkedInUrl" /\ val # None) =>
       IF Contains(Render(arg), <<"linkedin.com">>)
       THEN val[1] # None /\ Contains(val[1][1], <<"linkedin.com">>)
       ELSE val[1] = None
  /\ (call = "extractProfileUrls" /\ val # None /\ ~val[1].threw) =>
       \A i \in 1..Len(val[1].value) : Contains(val[1].value[i], <<"linkedin.com">>)

\* C23: every URL of extractProfileUrls' result, those built from publicId,
\* publicIdentifier or vanityName included, has been through
\* normalizeLinkedInUrl (it is what normalizeLinkedInUrl returns for it),
\* and no two entries of the result normalize to the same string.
C23_NormalizedEntries ==
  (call = "extractProfileUrls" /\ val # None /\ ~val[1].threw) =>
    LET out == val[1].value
    IN /\ \A i \in 1..Len(out) : normalizeLinkedInUrl(Str(out[i])) = Some(out[i])
       /\ \A i, j \in 1..Len(out) :
            normalizeLinkedInUrl(Str(out[i])) = normalizeLinkedInUrl(Str(out[j])) => i = j

\* The profile URLs of the elements of the collection post[name], if it
\* is an array.
UrlsIn(post, name) ==
  LET items == ItemsOf(Get(post, name))
  IN UNION {{extractUrlFromItem(items[k])[n] :
               n \in 1..Len(extractUrlFromItem(items[k]))} : k \in 1..Len(items)}

\* C28: for every record whose reactions field is absent or is not a
\* collection, the profile URLs of the engagers in its likers or likes
\* array are in extractProfileUrls' result; likewise commenters for a
\* record whose comments field is absent or not a collection.
C28_Synonyms ==
  (call = "extractProfileUrls" /\ val # None /\ ~val[1].threw) =>
    LET out == {val[1].value[n] : n \in 1..Len(val[1].value)}
    IN \A i \in 1..Len(arg) :
         arg[i].t = "object" =>
           /\ Get(arg[i], "reactions").t # "array" =>
                UrlsIn(arg[i], "likers") \cup UrlsIn(arg[i], "likes") \subseteq out
           /\ Get(arg[i], "comments").t # "array" =>
                UrlsIn(arg[i], "commenters") \subseteq out

\* C27: the handler starts a run only for an event without bot_id and
\* without subtype, from the configured channel, whose text parses;
\* parseMessage returns null unless the text holds a URL of linkedin.com
\* with a 'posts' or 'feed/update' path segment; so a message carrying a
\* bot_id, as the service's own messages do, never starts a run.
C27_TriggerOnly ==
  (call = "message" /\ val # None) =>
    /\ val[1] # None =>
         /\ ~arg.bot_id
         /\ ~arg.subtype
         /\ arg.channel = channelId
         /\ val[1] = parseMessage(arg.text)
    /\ parseMessage(arg.text) # None =>
         /\ arg.text # None
         /\ arg.text[1].url # None
         /\ arg.text[1].url[1].host \in {"linkedin.com", "www.linkedin.com"}
         /\ arg.text[1].url[1].segment \in {"posts", "feed/update"}
         /\ parseMessage(arg.text)[1].postUrl = arg.text[1].url[1]
    /\ arg.bot_id => val[1] = None

\* A user's message in the configured channel with a Slack-wrapped
\* feed/update URL started a run.
C27_Witness ==
  /\ call = "message"
  /\ ~arg.bot_id
  /\ arg.text # None
  /\ arg.text[1].wrapped
  /\ val = Some(Some([postUrl |-> [host |-> "www.linkedin.com", segment |-> "feed/update"]]))

\* The first words of the progress notification of each stage, in the
\* order of the stages.
Progress == <<"Scraping LinkedIn post engagers...", "Enriching ", "Pushing ">>

\* C25: when a stage's backend has been invoked, the progress notification
\* of that stage is in the thread, the k-th message for the k-th stage;
\* when the sending of a stage's progress notification failed, that stage
\* is not invoked; and a summary that was sent is the last message of
\* the run's thread.
C25_NotifiedFirst ==
  /\ \A k \in 1..Len(calls) :
       /\ k <= Len(notifs)
       /\ notifs[k].fn = "sendStatus"
       /\ notifs[k].text[2] = Progress[k]
  /\ failedAt = "sendStatusScraping" => calls = <<>>
  /\ failedAt = "sendStatusEnriching" => calls = <<"getPostEngagers">>
  /\ failedAt = "sendStatusPushing" => calls = <<"getPostEngagers", "enrichProfiles">>
  /\ \A i \in Sent("sendSummary") : i = Len(notifs)

\* A run through all three stages: three progress notifications, then
\* the summary, and nothing after it.
C25_Witness ==
  /\ RunOver
  /\ calls = <<"getPostEngagers", "enrichProfiles", "addLeads">>
  /\ Len(notifs) = 4
  /\ notifs[3].text[2] = "Pushing "
  /\ notifs[4].fn = "sendSummary"

\* The statuses waitForRun throws on.
Terminal == {"FAILED", "ABORTED", "TIMED-OUT"}

\* The errors runActor throws: the wrapped message of a failed request, of
\* a run that ended without success, or of the time-out.
ScraperReasons ==
  {ActorFailed(RequestFailed), ActorFailed(ActorRunTimedOut)}
    \cup {ActorFailed(ActorRunEnded(status)) : status \in Terminal}

\* C26: the dataset items are requested only after the run was reported
\* SUCCEEDED, by the start response or by a poll; waitForRun polls at most
\* maxAttempts times, returns on the first SUCCEEDED, throws at once on
\* FAILED, ABORTED or TIMED-OUT and throws the time-out error after
\* maxAttempts polls that reported none of these; every such failure
\* reaches runPipeline as an error with a readable reason, and no
\* engagement record or profile URL is returned.
C26_Polling ==
  /\ [](/\ (pc = "getDatasetItems" \/ ret.urls >= 0) => ret.status = Some("SUCCEEDED")
        /\ attempt \in 0..maxAttempts
        /\ failedAt \in {"startRun", "pollRun", "pollSleep"} =>
             /\ err[1] \in ScraperReasons
             /\ ret.urls = -1
             /\ profileUrls = <<>>
             /\ calls = <<"getPostEngagers">>)
  /\ [][/\ (pc = "pollRun" /\ pc' = "getDatasetItems") =>
            ret'.status = Some("SUCCEEDED")
        /\ (pc = "pollRun" /\ pc' = "pollSleep") =>
            /\ ret'.status[1] \notin Terminal \cup {"SUCCEEDED"}
            /\ attempt' = attempt
        /\ (pc = "pollRun" /\ pc' = "sendError") =>
            \/ err' = Some(ActorFailed(RequestFailed)) /\ ret' = ret
            \/ /\ ret'.status[1] \in Terminal
               /\ err' = Some(ActorFailed(ActorRunEnded(ret'.status[1])))
        /\ (pc = "pollSleep" /\ pc' = "pollRun") =>
            attempt' = attempt + 1 /\ attempt' <= maxAttempts
        /\ (pc = "pollSleep" /\ pc' = "sendError") =>
            attempt = maxAttempts /\ err' = Some(ActorFailed(ActorRunTimedOut))
        /\ (err' # err /\ err' = Some(ActorFailed(ActorRunTimedOut))) =>
            pc = "pollSleep"]_vars

\* The run was polled maxAttempts times without ending; the time-out error
\* reached runPipeline's catch and the run is over.
C26_Witness ==
  /\ RunOver
  /\ failedAt = "pollSleep"
  /\ err = Some(ActorFailed(ActorRunTimedOut))
  /\ ret.status \in {Some("READY"), Some("RUNNING")}

\* C30: within one addLeads call no contact is submitted twice: when the
\* bulk POST was answered, whatever the body, no individual submission
\* is issued; individual submissions follow only a bulk POST that was
\* rejected, one at a time in the order of the contacts.
C30_SubmittedOnce ==
  /\ ret.bulk = "answered" =>
       /\ pc \notin {"individualPost", "individualSleep"}
       /\ leads = <<>>
  /\ pc \in {"individualPost", "individualSleep"} =>
       /\ ret.bulk = "rejected"
       /\ leadIdx \in 1..Len(enrichedContacts)
       /\ Len(leads) = IF pc = "individualPost" THEN leadIdx - 1 ELSE leadIdx
       /\ \A j \in 1..Len(leads) :
            leads[j].email = FormattedLeads(enrichedContacts)[j].email

\* What enrichProfile(url) resolves to when its first request is answered
\* with something other than 429.
FirstAttemptValues(url) ==
  {EnrichedContact(url, response) :
     response \in {r \in MatchResponses(url) : r.code # 429}}

\* C24: a request answered 429 puts its call, and nothing else, to sleep;
\* after the sleep the request is posted again for the same URL, by the
\* same call and for no other URL; whatever a call resolves to, retried or
\* not, is a value a first attempt can resolve to; and the contacts
\* returned and the statistics are those of the per-URL results, whether
\* or not a request was answered 429.
C24_RetrySameUrl ==
  /\ [][\A i \in DOMAIN slot \cap DOMAIN slot' :
          /\ (slot[i] = "pending" /\ slot'[i] = "sleeping") =>
               /\ slot' = [slot EXCEPT ![i] = "sleeping"]
               /\ UNCHANGED <<pc, stats, calls, notifs, profileUrls, batch, results,
                              enrichedContacts>>
          /\ (slot[i] = "sleeping" /\ slot'[i] # "sleeping") =>
               /\ slot' = [slot EXCEPT ![i] = "pending"]
               /\ UNCHANGED <<pc, stats, calls, notifs, ret, profileUrls, batch,
                              results, enrichedContacts>>
          /\ (slot[i] = "pending" /\ slot'[i] = "settled") =>
               /\ results'[i] \in FirstAttemptValues(profileUrls[i])
               /\ \A j \in DOMAIN results \ {i} : results'[j] = results[j]]_vars
  /\ []((ret.contacts >= 0 /\ Len(results) = ret.urls) =>
          /\ enrichedContacts = Flatten(results)
          /\ ret.contacts = Len(Flatten(results))
          /\ stats.enriched = ret.contacts
          /\ stats.engagers = ret.urls)

\* The only URL of a run was answered 429, retried, and resolved to a
\* contact, which enrichProfiles returned.
C24_Witness ==
  /\ ret.retried
  /\ pc = "sendStatusPushing"
  /\ Len(profileUrls) = 1
  /\ results[1] # None
  /\ enrichedContacts = results[1]

\* C29: the contacts enrichProfiles accumulates and returns are in the
\* order of their URLs in the input list, whatever the order in which the
\* calls of a batch settle and however often a request is answered 429.
C29_InputOrder ==
  /\ \A a, b \in 1..Len(enrichedContacts) :
       a < b => \E i, j \in 1..Len(profileUrls) :
                  /\ i < j
                  /\ profileUrls[i] = enrichedContacts[a].linkedinUrl
                  /\ profileUrls[j] = enrichedContacts[b].linkedinUrl
  /\ (ret.contacts >= 0 /\ Len(results) = ret.urls) => enrichedContacts = Flatten(results)

\* Two waves with a retried request: the contacts returned are those of
\* the first, the second and the last URL, in that order.
C29_Witness ==
  /\ pc = "sendStatusPushing"
  /\ ret.retried
  /\ Len(ret.waves) = 2
  /\ Len(enrichedContacts) = 3
  /\ enrichedContacts[1].linkedinUrl = profileUrls[1]
  /\ enrichedContacts[2].linkedinUrl = profileUrls[2]
  /\ enrichedContacts[3].linkedinUrl = profileUrls[Len(profileUrls)]

\* The statistics, the stage progress and the summaries of the run r are
\* those of its own stages' results.
OwnResults(r) ==
  /\ r.stats = [engagers |-> IF r.ret.urls >= 0 THEN r.ret.urls ELSE 0,
                enriched |-> IF r.ret.contacts >= 0 THEN r.ret.contacts ELSE 0,
                pushed |-> IF r.ret.added >= 0 THEN r.ret.added ELSE 0,
                failed |-> IF r.ret.failed >= 0 THEN r.ret.failed ELSE 0]
  /\ r.pc \in {"sendStatusEnriching", "enrichBatch", "batchDelay"} =>
       r.ret.urls = Len(r.profileUrls)
  /\ r.pc \in {"sendStatusPushing", "bulkPost", "individualPost", "individualSleep"} =>
       r.ret.contacts = Len(r.enrichedContacts)
  /\ \E k \in 0..3 :
       r.calls = SubSeq(<<"getPostEngagers", "enrichProfiles", "addLeads">>, 1, k)
  /\ (\E i \in 1..Len(r.calls) : r.calls[i] = "enrichProfiles") <=> r.ret.waves # <<>>
  /\ (\E i \in 1..Len(r.calls) : r.calls[i] = "addLeads") => r.ret.contacts > 0
  /\ \A i \in 1..Len(r.notifs) :
       r.notifs[i].fn = "sendSummary" => r.notifs[i].stats = r.stats

====
